---- MODULE Spec2Model ----
(***************************************************************************)
(* Model of the Vault50 deposit bot (src/deposit-bot.js): the four chain   *)
(* watchers, the USD round ledger, the ticket rule and the draw.           *)
(*                                                                         *)
(* Units.  USD amounts are integer cents (the code keeps them rounded to   *)
(* two decimals).  Native amounts are integer thousandths of a coin and    *)
(* prices are cents per coin.  The tolerance is an integer percentage      *)
(* (0.10 in the code is 10 here).  Arithmetic is exact: the rounding       *)
(* error of IEEE doubles is not modelled.                                  *)
(*                                                                         *)
(* Atomicity.  JavaScript runs one callback at a time, so an action is     *)
(* the code between two awaits that wait for I/O (an HTTP or RPC answer).  *)
(* An await of an already settled promise only defers to the microtask     *)
(* queue, which no other watcher's I/O callback can enter, and so does     *)
(* not end an action.                                                      *)
(***************************************************************************)
EXTENDS Integers, Sequences, FiniteSets, TLC

\* ------------------------------------------------------------------ bounds

\* ticks (of any watchers) that may be in flight at the same time
MaxTicks == 2
\* deposits that may ever appear on the chains in one behaviour
MaxDeposits == 2
\* process restarts in one behaviour
MaxRestarts == 1
\* rotations of the round in one process lifetime
MaxRounds == 2
\* disturbances in one behaviour: failed or empty answers, expired prices,
\* empty blocks, admin commands
MaxDisturb == 1

\* ------------------------------------------------------- program constants

COINS == <<"BTC", "ETH", "BNB", "SOL">>
Coin == {COINS[k] : k \in 1..Len(COINS)}

\* items.slice(0, 60)
BtcSlice == 60
\* lastBlock = tip - 3 on the first tick
EvmFirstBack == 3
\* from = max(lastBlock + 1, tip - 6)
EvmWindow == 6

\* environment defaults this model starts the process with
EnvEntryUsd == 5000
EnvTargetUsd == 10000
EnvTolPct == 10

\* --------------------------------------------------------- pure functions

Min(a, b) == IF a < b THEN a ELSE b
Max(a, b) == IF a > b THEN a ELSE b
Abs(a) == IF a < 0 THEN 0 - a ELSE a

\* Math.round(a / b) for a >= 0, b > 0: halves round up
RoundDiv(a, b) == (2 * a + b) \div (2 * b)

\* toUSD: Number((amount * p).toFixed(2)); amount in thousandths, p in cents
toUSD(symbol, amount, px) ==
    LET p == px[symbol] IN RoundDiv(amount * p, 1000)

\* Math.floor in the place of Math.round (C8 rests on the rounding)
NearestFloor(usd, entryUsd) == usd \div entryUsd

\* Math.ceil in the place of Math.round (C33 rests on the rounding to the
\* nearest multiple)
NearestCeil(usd, entryUsd) == (usd + entryUsd - 1) \div entryUsd

\* Math.round(raw)
Nearest(usd, entryUsd) == RoundDiv(usd, entryUsd)

\* ticketsForUSD without its first line `if (usd < entryUsd * (1 - tol))
\* return 0` (C16 rests on it: Math.max(1, Math.round(0)) is 1)
ticketsUnguarded(usd, entryUsd, tol) ==
    LET nearest == Nearest(usd, entryUsd)
        ok == Abs(usd - nearest * entryUsd) * 100 <= entryUsd * tol
        flo == usd \div entryUsd
        remainder == usd - flo * entryUsd
    IN  IF ok THEN Max(1, nearest)
        ELSE IF flo >= 1 /\ remainder * 100 <= entryUsd * tol THEN flo
        ELSE 0

\* ticketsForUSD(usd, entryUsd, tol), tol in percent
ticketsForUSD(usd, entryUsd, tol) ==
    IF usd * 100 < entryUsd * (100 - tol) THEN 0
    ELSE LET nearest == Nearest(usd, entryUsd)
             ok == Abs(usd - nearest * entryUsd) * 100 <= entryUsd * tol
             flo == usd \div entryUsd
             remainder == usd - flo * entryUsd
         IN  IF ok THEN Max(1, nearest)
             ELSE IF flo >= 1 /\ remainder * 100 <= entryUsd * tol THEN flo
             ELSE 0

\* --------------------------------------------------- the chains' contents

\* The transfers that may appear on the chains.  amount is in thousandths of
\* a coin; pays: the transfer is addressed to the watched address (BTC: an
\* output to ADDR.BTC, EVM: tx.to, SOL: a parsed transfer instruction whose
\* destination is ADDR.SOL; lead counts the other instructions before it).
\* The hash x1 exists on ETH and on BNB (a transaction replayed on both).
Quote == [BTC |-> 2500000, ETH |-> 250000, BNB |-> 50000, SOL |-> 10000]

Deposits ==
    { [chain |-> "BTC", id |-> "b1", amount |-> 2,   from |-> "A", pays |-> TRUE,  lead |-> 0],
      [chain |-> "BTC", id |-> "b2", amount |-> 2,   from |-> "B", pays |-> TRUE,  lead |-> 0],
      [chain |-> "BTC", id |-> "b3", amount |-> 2,   from |-> "C", pays |-> TRUE,  lead |-> 0],
      [chain |-> "BTC", id |-> "b4", amount |-> 1,   from |-> "A", pays |-> TRUE,  lead |-> 0],
      [chain |-> "BTC", id |-> "b5", amount |-> 2,   from |-> "B", pays |-> FALSE, lead |-> 0],
      [chain |-> "BTC", id |-> "b6", amount |-> 4,   from |-> "C", pays |-> TRUE,  lead |-> 0],
      [chain |-> "ETH", id |-> "e1", amount |-> 41,  from |-> "A", pays |-> TRUE,  lead |-> 0],
      [chain |-> "ETH", id |-> "x1", amount |-> 20,  from |-> "C", pays |-> TRUE,  lead |-> 0],
      [chain |-> "BNB", id |-> "x1", amount |-> 100, from |-> "C", pays |-> TRUE,  lead |-> 0],
      [chain |-> "BNB", id |-> "n1", amount |-> 100, from |-> "B", pays |-> FALSE, lead |-> 0],
      [chain |-> "SOL", id |-> "s1", amount |-> 500, from |-> "A", pays |-> TRUE,  lead |-> 1],
      [chain |-> "SOL", id |-> "s2", amount |-> 320, from |-> "B", pays |-> TRUE,  lead |-> 0] }

TxIds == {d.id : d \in Deposits}
DepOf(chain, id) == CHOOSE d \in Deposits : d.chain = chain /\ d.id = id

Null == "null"
EVM == {"ETH", "BNB"}

\* ------------------------------------------------------------------ state

VARIABLES
    ENTRY_USD, ROUND_TARGET_USD, ENTRY_TOL,   \* the mutable configuration
    priceCache,     \* [fresh, data]: fresh stands for Date.now() - ts <= 60000
    priming,        \* the refreshPrices() call of start-up is still in flight
    rounds,         \* rounds[s] = [id, entries]
    grand,          \* [usdTotal]
    seen,           \* the Set of txids / hashes / signatures
    usdRound,       \* global.__usd_round: <<>> while unset, else <<record>>
    finalizing,     \* calls of finalizeUsdProofManual waiting for postToChannel
    disturb,        \* history: disturbances so far
    lastBlock,      \* lastBlock of the ETH and of the BNB watcher
    lastSolSig,
    ticks,          \* the invocations of the watchers' tick functions in flight
    btcTxs,         \* the BTC transactions touching ADDR.BTC, oldest first
    btcConfirmed,   \* those of them that are in a block
    evmTip,         \* evmTip[c]: the chain's block number
    evmTxs,         \* evmTxs[c]: the set of [id, bn] of the chain's transactions
    solSigs,        \* the signatures of ADDR.SOL, oldest first
    scen,           \* what the environment may do in this behaviour
    credited,       \* history: addEntry calls per txid, since the process started
    rejections,     \* history: 'did not match entry rule' posts per txid, likewise
    deferred,       \* history: the EVM transfers a tick left for a later one, their
                    \* block being above tip - confirmsNeeded + 1
    caught,         \* history: the ticks that ended in their `catch (_) {}`
    scanned,        \* history: the block numbers an EVM tick got from getBlock,
                    \* per chain, since the process started
    creditedEver,   \* history: addEntry calls per txid, over all restarts
    drawLog,        \* history: the draws that selected a winner
    drawsDone,      \* history: calls of runUsdDraw that ran to their end
    restarts,       \* history: restarts so far
    fn              \* the call of a pure function under check

\* CONF: CONFIRMS_BTC, CONFIRMS_EVM, CONFIRMS_SOL of the environment
CONF == scen.conf

cfgVars == <<ENTRY_USD, ROUND_TARGET_USD, ENTRY_TOL>>
chainVars == <<btcTxs, btcConfirmed, evmTip, evmTxs, solSigs>>
ledgerVars == <<rounds, grand, seen, credited, creditedEver, rejections>>
cursorVars == <<lastBlock, lastSolSig, deferred, caught>>
histVars == <<drawLog, drawsDone, restarts, scanned>>
adminVars == <<finalizing, disturb>>
vars == <<cfgVars, priceCache, priming, ledgerVars, usdRound, cursorVars, ticks,
          chainVars, scen, histVars, adminVars, fn>>

\* the first block number of the modelled part of an EVM chain
TipBase == EvmWindow + EvmFirstBack + 1
\* blocks an EVM chain may grow by
MaxBlocks == 2

IdleTick ==
    [kind |-> Null, pc |-> "idle", items |-> <<>>, cur |-> Null, tip |-> 0,
     bn |-> 0, first |-> Null, rec |-> <<>>, drew |-> FALSE, p |-> 0, tickets |-> 0,
     primed |-> FALSE, told |-> {}, drawn |-> {}]

NoFn == [op |-> Null]

\* const rounds = COINS.reduce(... { id: 1, entries: [] ... })
InitRounds == [s \in Coin |-> [id |-> 1, entries |-> <<>>]]

\* the state of a freshly started process
ProcessInit ==
    /\ ENTRY_USD = EnvEntryUsd
    /\ ROUND_TARGET_USD = EnvTargetUsd
    /\ ENTRY_TOL = EnvTolPct
    /\ priceCache = [fresh |-> FALSE, data |-> [s \in Coin |-> 0]]
    /\ priming = TRUE
    /\ rounds = InitRounds
    /\ grand = [usdTotal |-> 0]
    /\ seen = {}
    /\ usdRound = <<>>
    /\ lastBlock = [c \in EVM |-> 0]
    /\ lastSolSig = Null
    /\ ticks = [i \in 1..MaxTicks |-> IdleTick]
    /\ credited = [t \in TxIds |-> 0]
    /\ rejections = [t \in TxIds |-> 0]
    /\ deferred = {}
    /\ caught = 0
    /\ scanned = [c \in EVM |-> {}]
    /\ finalizing = 0

ChainInit ==
    /\ btcTxs = <<>>
    /\ btcConfirmed = {}
    /\ evmTip = [c \in EVM |-> TipBase]
    /\ evmTxs = [c \in EVM |-> {}]
    /\ solSigs = <<>>

HistInit ==
    /\ creditedEver = [t \in TxIds |-> 0]
    /\ drawLog = {}
    /\ drawsDone = 0
    /\ restarts = 0
    /\ disturb = 0

\* ------------------------------------------------------------ environment

\* a disturbance may still happen, and what a step spends of them
CanDisturb == disturb < scen.budget
Spend(n) == disturb' = disturb + n
Cost(ok) == IF ok THEN 0 ELSE 1

\* the outcomes of a request: answered (TRUE) or failed
Net == IF CanDisturb THEN BOOLEAN ELSE {TRUE}

OnChain ==
    Len(btcTxs) + Cardinality(evmTxs["ETH"]) + Cardinality(evmTxs["BNB"]) + Len(solSigs)

InSeq(x, q) == \E k \in 1..Len(q) : q[k] = x

IsOnChain(d) ==
    CASE d.chain = "BTC" -> InSeq(d.id, btcTxs)
      [] d.chain = "SOL" -> InSeq(d.id, solSigs)
      [] OTHER -> \E x \in evmTxs[d.chain] : x.id = d.id

\* a transfer is broadcast: BTC into the mempool, EVM and SOL into a new block
Arrive(d) ==
    /\ d \in scen.pool
    /\ ~IsOnChain(d)
    /\ OnChain < scen.limit
    /\ d.chain \in EVM => evmTip[d.chain] < TipBase + scen.blocks
    /\ btcTxs' = IF d.chain = "BTC" THEN Append(btcTxs, d.id) ELSE btcTxs
    /\ solSigs' = IF d.chain = "SOL" THEN Append(solSigs, d.id) ELSE solSigs
    /\ evmTip' = IF d.chain \in EVM THEN [evmTip EXCEPT ![d.chain] = @ + 1] ELSE evmTip
    /\ evmTxs' = IF d.chain \in EVM
                 THEN [evmTxs EXCEPT ![d.chain] = @ \cup {[id |-> d.id, bn |-> evmTip[d.chain] + 1]}]
                 ELSE evmTxs
    /\ UNCHANGED <<cfgVars, priceCache, priming, ledgerVars, usdRound, cursorVars, ticks,
                   btcConfirmed, scen, histVars, adminVars, fn>>

\* a BTC transaction of the mempool gets into a block
BtcConfirm(id) ==
    /\ InSeq(id, btcTxs)
    /\ id \notin btcConfirmed
    /\ btcConfirmed' = btcConfirmed \cup {id}
    /\ UNCHANGED <<cfgVars, priceCache, priming, ledgerVars, usdRound, cursorVars, ticks,
                   btcTxs, evmTip, evmTxs, solSigs, scen, histVars, adminVars, fn>>

\* an EVM chain grows by a block without a transfer to the watched address
EvmMine(c) ==
    /\ scen.mineCost = 0 \/ CanDisturb
    /\ evmTip[c] < TipBase + scen.blocks
    /\ evmTip' = [evmTip EXCEPT ![c] = @ + 1]
    /\ Spend(scen.mineCost)
    /\ UNCHANGED <<cfgVars, priceCache, priming, ledgerVars, usdRound, cursorVars, ticks,
                   btcTxs, btcConfirmed, evmTxs, solSigs, scen, histVars, finalizing, fn>>

\* ----------------------------------------------------------------- prices

\* What the price source may answer: data.<coin>?.usd || 0 per symbol, with
\* the quotes of the symbols in m missing.
Answer(m) == [s \in Coin |-> IF s \in m THEN 0 ELSE Quote[s]]

\* refreshPrices: a failed request leaves the cache alone (catch (_) {}),
\* an answer replaces it whole.  o.ok: the request succeeded; o.missing: the
\* symbols the answer has no quote for.
refreshPrices(cache, o) ==
    IF ~o.ok THEN cache ELSE [fresh |-> TRUE, data |-> Answer(o.missing)]

FullAnswer == [ok |-> TRUE, missing |-> {}]

RefreshOutcomes ==
    IF CanDisturb
    THEN {FullAnswer, [ok |-> FALSE, missing |-> {}]}
         \cup {[ok |-> TRUE, missing |-> m] : m \in scen.missing}
    ELSE {FullAnswer}

\* the request of `refreshPrices().catch(...)` at start-up is answered
PrimeDone ==
    /\ priming
    /\ priming' = FALSE
    /\ \E o \in RefreshOutcomes :
        /\ priceCache' = refreshPrices(priceCache, o)
        /\ Spend(Cost(o = FullAnswer))
    /\ UNCHANGED <<cfgVars, ledgerVars, usdRound, cursorVars, ticks, chainVars, scen,
                   histVars, finalizing, fn>>

\* 60 s pass since priceCache.ts
PriceExpires ==
    /\ priceCache.fresh
    /\ CanDisturb
    /\ priceCache' = [priceCache EXCEPT !.fresh = FALSE]
    /\ Spend(1)
    /\ UNCHANGED <<cfgVars, priming, ledgerVars, usdRound, cursorVars, ticks, chainVars,
                   scen, histVars, finalizing, fn>>

\* ------------------------------------------------------------ round state

\* a newRoundAll that opens a new round for the first symbol alone (C23
\* rests on the loop over COINS)
newRoundFirst(rs) ==
    [rs EXCEPT ![COINS[1]] = [id |-> rs[COINS[1]].id + 1, entries |-> <<>>]]

\* newRoundAll: every symbol gets a fresh round with the next id
newRoundAll(rs) == [s \in Coin |-> [id |-> rs[s].id + 1, entries |-> <<>>]]

\* newRoundAll without its `grand.usdTotal = 0` (C6 rests on that line)
resetTotalKept(g) == g

\* grand.usdTotal = 0 of newRoundAll
resetTotal(g) == [g EXCEPT !.usdTotal = 0]

\* addEntry: rounds[symbol].entries.push(entry)
addEntry(rs, symbol, entry) == [rs EXCEPT ![symbol].entries = Append(@, entry)]

\* addEntry: grand.usdTotal += entry.usd
addTotal(g, entry) == [g EXCEPT !.usdTotal = @ + entry.usd]

reachedUsdTarget == grand.usdTotal >= ROUND_TARGET_USD

\* one copy whatever the tickets (C11 rests on the inner loop of buildTicketBag)
RepeatOnce(x, n) == <<x>>

RECURSIVE Repeat(_, _)
Repeat(x, n) == IF n <= 0 THEN <<>> ELSE <<x>> \o Repeat(x, n - 1)

RECURSIVE BagOfEntries(_, _)
BagOfEntries(s, es) ==
    IF es = <<>> THEN <<>>
    ELSE Repeat([symbol |-> s, from |-> Head(es).from, amount |-> Head(es).amount,
                 usd |-> Head(es).usd, tickets |-> Head(es).tickets,
                 txid |-> Head(es).txid], Head(es).tickets)
         \o BagOfEntries(s, Tail(es))

RECURSIVE BagOfCoins(_, _)
BagOfCoins(rs, k) ==
    IF k > Len(COINS) THEN <<>>
    ELSE BagOfEntries(COINS[k], rs[COINS[k]].entries) \o BagOfCoins(rs, k + 1)

\* buildTicketBag: for s of COINS, for e of entries, e.tickets copies of e
buildTicketBag(rs) == BagOfCoins(rs, 1)

Bump(f, t) == [f EXCEPT ![t] = Min(@ + 1, 2)]

\* ------------------------------------------------------------------ draw

\* The digest stands for SHA-256 as a fixed function of the seed material
\* {seed, txids, totalUsd}: a polynomial mix of its parts, HashMod wide.
IdOrder == <<"b1", "b2", "b3", "b4", "b5", "b6", "e1", "x1", "n1", "s1", "s2">>
TxCode(t) == CHOOSE k \in 1..Len(IdOrder) : IdOrder[k] = t
HashMod == 65521

RECURSIVE MixSeq(_, _)
MixSeq(q, acc) ==
    IF q = <<>> THEN acc ELSE MixSeq(Tail(q), (acc * 31 + Head(q) + 7) % HashMod)

\* txids: bag.map(b => b.txid)
txids(bag) == [k \in 1..Len(bag) |-> bag[k].txid]

\* JSON.stringify({seed, txids, totalUsd}) as a sequence of numbers
seedMaterial(seedParts, bag, totalUsd) ==
    <<seedParts.btcHead, seedParts.ethHead, seedParts.solSlot>>
    \o [k \in 1..Len(bag) |-> TxCode(txids(bag)[k])]
    \o <<totalUsd>>

\* crypto.createHash('sha256').update(seedMaterial).digest('hex')
Digest(seedParts, bag, totalUsd) == MixSeq(seedMaterial(seedParts, bag, totalUsd), 0)

\* a modulus one too wide (C10 rests on `% bag.length`)
SelectIndexWide(h, bag) == h % (Len(bag) + 1)

\* parseInt(h.slice(0, 16), 16) % bag.length
SelectIndex(h, bag) == h % Len(bag)

\* bag[idx]: <<>> stands for undefined
BagAt(bag, idx) == IF idx + 1 \in DOMAIN bag THEN <<bag[idx + 1]>> ELSE <<>>

\* the seed requests that carry a timeout of their own ({ timeout: 10000 }
\* of the axios call; the getBlock and getSlot calls are given none)
SeedTimed == {"BTC"}

\* The sets of seed requests that may fail together.  scen.hang holds the
\* feeds that never answer in this behaviour: a request with a timeout fails
\* when its feed does not answer.
SeedFailures ==
    {f \cup (scen.hang \cap SeedTimed) :
        f \in (IF CanDisturb THEN scen.seedFailures \cup {{}} ELSE {{}})}

\* Promise.all of fetchChainSeeds settles: no request is left waiting for a
\* feed that never answers
SeedsSettle == scen.hang \subseteq SeedTimed

\* fetchChainSeeds: each head is the chain's, or '' (0 here) when its request
\* failed; there is no BNB head.  f is the set of failed requests.
fetchChainSeeds(f) ==
    [btcHead |-> IF "BTC" \in f THEN 0 ELSE 1 + Cardinality(btcConfirmed),
     ethHead |-> IF "ETH" \in f THEN 0 ELSE evmTip["ETH"],
     solSlot |-> IF "SOL" \in f THEN 0 ELSE 1 + Len(solSigs)]

\* a seed material that also holds the number of draws made so far, as a
\* timestamp or a counter in it would (C9 rests on the material being
\* {seed, txids, totalUsd} alone)
DrawResultStamped(seedParts, bag, g) ==
    LET h == MixSeq(seedMaterial(seedParts, bag, g.usdTotal) \o <<Cardinality(drawLog)>>, 0)
        idx == SelectIndex(h, bag)
    IN  [seedParts |-> seedParts, bag |-> bag, hash |-> h, idx |-> idx,
         winner |-> BagAt(bag, idx), totalUsd |-> g.usdTotal]

\* runUsdDraw from `const seedMaterial` to `const winner`, for a bag that is
\* not empty
DrawResult(seedParts, bag, g) ==
    LET h == Digest(seedParts, bag, g.usdTotal)
        idx == SelectIndex(h, bag)
    IN  [seedParts |-> seedParts, bag |-> bag, hash |-> h, idx |-> idx,
         winner |-> BagAt(bag, idx), totalUsd |-> g.usdTotal]

\* ---------------------------------------------------------------- watchers
\* A tick is one invocation of pollBTC, of the tick of makeEvmWatcher or of
\* pollSOL.  setInterval starts a tick whatever the earlier ones are doing,
\* so several ticks of one watcher may be in flight.  pc names the await
\* the tick is suspended at:
\*   fetch     pollBTC: Promise.all of the three mempool.space requests
\*   tip       EVM: provider.getBlockNumber()
\*   block     EVM: provider.getBlock(bn, true)
\*   sigs      pollSOL: getSignaturesForAddress
\*   balance   pollSOL: getBalance
\*   parsed    pollSOL: getParsedTransaction
\*   prices    getPrices() with a stale cache: the request of refreshPrices
\*   post      postToChannel of 'Entry accepted' / 'did not match entry rule'
\*   seeds     runUsdDraw: fetchChainSeeds
\*   announce  runUsdDraw: postToChannel of 'Winner Selected'
\*   notify    postToChannel of 'New Deposit' (EVM: after getBalance)

\* The slots of ticks carry no meaning: the ticks in flight are kept in a
\* fixed order (by watcher, then by the await they are at), idle slots last.
PcOrder == <<"fetch", "tip", "block", "sigs", "balance", "parsed", "prices", "post",
             "seeds", "announce", "notify", "idle">>
Index(q, x) == CHOOSE k \in 1..Len(q) : q[k] = x
Rank(t) ==
    IF t.pc = "idle" THEN 1000
    ELSE Index(COINS, t.kind) * 100 + Index(PcOrder, t.pc) * 4 + Len(t.items)

RECURSIVE Insert(_, _)
Insert(q, t) ==
    IF q = <<>> THEN <<t>>
    ELSE IF Rank(t) <= Rank(Head(q)) THEN <<t>> \o q
    ELSE <<Head(q)>> \o Insert(Tail(q), t)

RECURSIVE Sorted(_)
Sorted(q) == IF q = <<>> THEN <<>> ELSE Insert(Sorted(Tail(q)), Head(q))

\* the ticks with tick i replaced by t
Set(i, t) == Sorted([ticks EXCEPT ![i] = t])

Elems(q) == {q[k] : k \in DOMAIN q}

\* the place of the first element of q that the loop does not `continue`
\* past (ok holds those elements), 0 when there is none
FirstIdx(q, ok) ==
    IF \E k \in DOMAIN q : q[k] \in ok
    THEN CHOOSE k \in DOMAIN q : q[k] \in ok /\ \A j \in 1..(k - 1) : q[j] \notin ok
    ELSE 0

Rest(q, k) == SubSeq(q, k + 1, Len(q))

\* the Entry object of addEntry (ts left out)
Entry(d, usd, tickets) ==
    [from |-> d.from, amount |-> d.amount, usd |-> usd, tickets |-> tickets, txid |-> d.id]

\* the tickets computed with the entry price of the environment instead of
\* the ENTRY_USD in effect (C7 rests on the default parameters of
\* ticketsForUSD being read at the call)
CreditStale(i, t, txid, data) ==
    LET d == DepOf(t.kind, txid)
        usd == toUSD(t.kind, d.amount, data)
        tickets == ticketsForUSD(usd, EnvEntryUsd, EnvTolPct)
    IN  /\ IF tickets > 0
           THEN /\ rounds' = addEntry(rounds, t.kind, Entry(d, usd, tickets))
                /\ grand' = addTotal(grand, Entry(d, usd, tickets))
                /\ credited' = Bump(credited, txid)
                /\ creditedEver' = Bump(creditedEver, txid)
                /\ UNCHANGED rejections
           ELSE /\ rejections' = Bump(rejections, txid)
                /\ UNCHANGED <<rounds, grand, credited, creditedEver>>
        /\ ticks' = Set(i, [t EXCEPT !.pc = "post", !.cur = txid, !.p = data[t.kind],
                                     !.tickets = tickets])

\* From `const usd = toUSD(...)` to the postToChannel after it, with data the
\* prices getPrices returned.  p (of toUSD) and tickets are the locals the
\* message posted is made of.
Credit(i, t, txid, data) ==
    LET d == DepOf(t.kind, txid)
        usd == toUSD(t.kind, d.amount, data)
        tickets == ticketsForUSD(usd, ENTRY_USD, ENTRY_TOL)
    IN  /\ IF tickets > 0
           THEN /\ rounds' = addEntry(rounds, t.kind, Entry(d, usd, tickets))
                /\ grand' = addTotal(grand, Entry(d, usd, tickets))
                /\ credited' = Bump(credited, txid)
                /\ creditedEver' = Bump(creditedEver, txid)
                /\ UNCHANGED rejections
           ELSE /\ rejections' = Bump(rejections, txid)
                /\ UNCHANGED <<rounds, grand, credited, creditedEver>>
        /\ ticks' = Set(i, [t EXCEPT !.pc = "post", !.cur = txid, !.p = data[t.kind],
                                     !.tickets = tickets])

\* seen.add(txid); const prices = await getPrices(): with a fresh cache the
\* tick goes on at once, else it waits for the request of refreshPrices.
Examine(i, t, txid) ==
    /\ seen' = seen \cup {txid}
    /\ UNCHANGED cursorVars
    /\ IF priceCache.fresh
       THEN Credit(i, t, txid, priceCache.data)
       ELSE /\ ticks' = Set(i, [t EXCEPT !.pc = "prices", !.cur = txid])
            /\ UNCHANGED <<rounds, grand, credited, creditedEver, rejections>>

\* the tick returns; the EVM tick sets lastBlock, pollSOL sets lastSolSig
Finish(i, t) ==
    /\ ticks' = Set(i, IdleTick)
    /\ lastBlock' = IF t.kind \in EVM
                    THEN [lastBlock EXCEPT ![t.kind] = t.tip - CONF.EVM + 1]
                    ELSE lastBlock
    /\ lastSolSig' = IF t.kind = "SOL" /\ t.first # Null THEN t.first ELSE lastSolSig
    /\ UNCHANGED <<ledgerVars, deferred, caught>>

\* a tick whose cursor assignment stands in a `finally`: it runs when a
\* request threw as well (C25 rests on the assignment being the last
\* statement of the try block)
FailAdvancing(i) ==
    /\ ticks' = Set(i, IdleTick)
    /\ caught' = caught + 1
    /\ lastBlock' = IF ticks[i].kind \in EVM
                    THEN [lastBlock EXCEPT ![ticks[i].kind] = evmTip[ticks[i].kind] - CONF.EVM + 1]
                    ELSE lastBlock
    /\ UNCHANGED <<ledgerVars, lastSolSig, deferred>>

\* a request of the tick threw: catch (_) {} ends the tick
Fail(i) ==
    /\ ticks' = Set(i, IdleTick)
    /\ caught' = caught + 1
    /\ UNCHANGED <<ledgerVars, lastBlock, lastSolSig, deferred>>

\* pollBTC, `for (const tx of items.slice(0, 60))` from the next item on
BtcEligible(it) ==
    /\ it.txid \notin seen
    /\ DepOf("BTC", it.txid).pays
    /\ (IF it.confirmed THEN 1 ELSE 0) >= CONF.BTC

BtcLoop(i, t) ==
    LET k == FirstIdx(t.items, {it \in Elems(t.items) : BtcEligible(it)})
    IN  IF k = 0 THEN Finish(i, t)
        ELSE Examine(i, [t EXCEPT !.items = Rest(t.items, k)], t.items[k].txid)

\* EVM tick: the transactions of block bn from the next one on, then the
\* next blocks up to tip - confirmsNeeded + 1
EvmEligible(tx) == DepOf(tx.chain, tx.id).pays /\ tx.id \notin seen

EvmLoop(i, t) ==
    LET k == FirstIdx(t.items, {tx \in Elems(t.items) : EvmEligible(tx)})
    IN  IF k # 0
        THEN Examine(i, [t EXCEPT !.items = Rest(t.items, k)], t.items[k].id)
        ELSE IF t.bn + 1 <= t.tip - CONF.EVM + 1
        THEN /\ ticks' = Set(i, [t EXCEPT !.pc = "block", !.bn = t.bn + 1, !.items = <<>>])
             /\ UNCHANGED <<ledgerVars, cursorVars>>
        ELSE Finish(i, t)

\* pollSOL, `for (const s of list)` from the next signature on
SolUnseen(sig) == sig \notin seen

SolLoop(i, t) ==
    LET k == FirstIdx(t.items, {sig \in Elems(t.items) : SolUnseen(sig)})
    IN  IF k = 0 THEN Finish(i, t)
        ELSE /\ ticks' = Set(i, [t EXCEPT !.pc = "parsed", !.cur = t.items[k],
                                          !.items = Rest(t.items, k)])
             /\ UNCHANGED <<ledgerVars, cursorVars>>

\* the loop of the tick goes on with its next candidate
Loop(i, t) ==
    CASE t.kind = "BTC" -> BtcLoop(i, t)
      [] t.kind = "SOL" -> SolLoop(i, t)
      [] OTHER -> EvmLoop(i, t)

\* the other variables a step of a tick leaves alone
ScanFrame == <<cfgVars, priming, chainVars, scen, restarts, finalizing, fn>>
TickFrame == <<ScanFrame, scanned>>

\* setInterval fires: a tick of watcher k starts and sends its first request
\* (`if (!ADDR.BTC) return;`, `if (!toAddr) return;`: not without an address)
StartTick(k) ==
    /\ k \in scen.watchers
    /\ \E i \in 1..scen.ticks :
        /\ ticks[i].pc = "idle"
        /\ \A j \in 1..(i - 1) : ticks[j].pc # "idle"
        /\ ticks' = Set(i, [IdleTick EXCEPT !.kind = k,
                              !.pc = CASE k = "BTC" -> "fetch"
                                       [] k = "SOL" -> "sigs"
                                       [] OTHER -> "tip"])
    /\ UNCHANGED <<TickFrame, priceCache, ledgerVars, usdRound, cursorVars, drawLog,
                   drawsDone, disturb>>

RECURSIVE BtcList(_, _)
BtcList(q, conf) ==
    IF q = <<>> THEN <<>>
    ELSE BtcList(Tail(q), conf)
         \o (IF (Head(q) \in btcConfirmed) = conf
             THEN <<[txid |-> Head(q), confirmed |-> conf]>> ELSE <<>>)

\* [...confirmed.data, ...mempool.data].slice(0, 60), newest first
BtcItems ==
    LET all == BtcList(btcTxs, TRUE) \o BtcList(btcTxs, FALSE)
    IN  SubSeq(all, 1, Min(BtcSlice, Len(all)))

\* pollBTC: the three requests are answered, or one of them fails
BtcFetchDone(i) ==
    /\ ticks[i].pc = "fetch"
    /\ \E ok \in Net :
        /\ IF ok THEN Loop(i, [ticks[i] EXCEPT !.items = BtcItems]) ELSE Fail(i)
        /\ Spend(Cost(ok))
    /\ UNCHANGED <<TickFrame, priceCache, usdRound, drawLog, drawsDone>>

\* getPrices with a stale cache: the request of refreshPrices is answered
PricesDone(i) ==
    /\ ticks[i].pc = "prices"
    /\ \E o \in RefreshOutcomes :
        /\ priceCache' = refreshPrices(priceCache, o)
        /\ Spend(Cost(o = FullAnswer))
    /\ Credit(i, ticks[i], ticks[i].cur, priceCache'.data)
    /\ UNCHANGED <<TickFrame, seen, usdRound, cursorVars, drawLog, drawsDone>>

\* `if (reachedUsdTarget()) await runUsdDraw(); else { ... 'New Deposit' ... }`
PostDone(i) ==
    /\ ticks[i].pc = "post"
    /\ ticks' = Set(i, IF reachedUsdTarget
                       THEN [ticks[i] EXCEPT !.pc = "seeds", !.drew = TRUE, !.p = 0,
                                             !.tickets = 0]
                       ELSE [ticks[i] EXCEPT !.pc = "notify", !.p = 0, !.tickets = 0])
    /\ UNCHANGED <<TickFrame, priceCache, ledgerVars, usdRound, cursorVars, drawLog,
                   drawsDone, disturb>>

\* what a draw leaves in the history
DrawLogged(r) ==
    [seq |-> Cardinality(drawLog) + 1, life |-> restarts, round |-> [s \in Coin |-> rounds[s].id], seedParts |-> r.seedParts,
     bag |-> r.bag, totalUsd |-> r.totalUsd, hash |-> r.hash, idx |-> r.idx,
     winner |-> r.winner]

\* runUsdDraw without its `if (!bag.length) return` (C24 rests on it): an
\* empty bag is announced and recorded like any other, with no winner
SeedsDoneUnguarded(i) ==
    /\ ticks[i].pc = "seeds"
    /\ SeedsSettle
    /\ \E f \in SeedFailures :
        /\ Spend(Cost(f = scen.hang))
        /\ LET bag == buildTicketBag(rounds)
               seedParts == fetchChainSeeds(f)
               r == IF bag = <<>>
                    THEN [seedParts |-> seedParts, bag |-> bag,
                          hash |-> Digest(seedParts, bag, grand.usdTotal), idx |-> 0,
                          winner |-> <<>>, totalUsd |-> grand.usdTotal]
                    ELSE DrawResult(seedParts, bag, grand)
           IN  /\ ticks' = Set(i, [ticks[i] EXCEPT !.pc = "announce",
                                     !.drawn = @ \cup {ticks[i].cur},
                                     !.rec = <<[seedParts |-> r.seedParts,
                                                bagLen |-> Len(r.bag), hash |-> r.hash,
                                                winner |-> r.winner]>>])
               /\ drawLog' = drawLog \cup {DrawLogged(r)}
               /\ UNCHANGED <<ledgerVars, cursorVars>>
    /\ UNCHANGED <<TickFrame, priceCache, usdRound, drawsDone>>

\* runUsdDraw: the seeds are in; an empty bag returns, else the winner is
\* selected and announced
SeedsDone(i) ==
    /\ ticks[i].pc = "seeds"
    /\ SeedsSettle
    /\ \E f \in SeedFailures :
        /\ Spend(Cost(f = scen.hang))
        /\ LET bag == buildTicketBag(rounds)
               r == DrawResult(fetchChainSeeds(f), bag, grand)
           IN  IF bag = <<>>
               THEN /\ Loop(i, ticks[i])
                    /\ UNCHANGED drawLog
               ELSE /\ ticks' = Set(i, [ticks[i] EXCEPT !.pc = "announce",
                                          !.drawn = @ \cup {ticks[i].cur},
                                          !.rec = <<[seedParts |-> r.seedParts,
                                                     bagLen |-> Len(r.bag), hash |-> r.hash,
                                                     winner |-> r.winner]>>])
                    /\ drawLog' = drawLog \cup {DrawLogged(r)}
                    /\ UNCHANGED <<ledgerVars, cursorVars>>
    /\ UNCHANGED <<TickFrame, priceCache, usdRound, drawsDone>>

\* the draw's `else` left out (C30 rests on it): 'New Deposit' follows the
\* draw of the same deposit
AnnounceThenNotify(i) ==
    /\ ticks[i].pc = "announce"
    /\ usdRound' = ticks[i].rec
    /\ drawsDone' = drawsDone + 1
    /\ ticks' = Set(i, [ticks[i] EXCEPT !.rec = <<>>, !.pc = "notify"])
    /\ UNCHANGED <<ledgerVars, cursorVars>>
    /\ UNCHANGED <<TickFrame, priceCache, drawLog, disturb>>

\* runUsdDraw: global.__usd_round = {...}; the tick's loop goes on
AnnounceDone(i) ==
    /\ ticks[i].pc = "announce"
    /\ usdRound' = ticks[i].rec
    /\ drawsDone' = drawsDone + 1
    /\ Loop(i, [ticks[i] EXCEPT !.rec = <<>>])
    /\ UNCHANGED <<TickFrame, priceCache, drawLog, disturb>>

\* 'New Deposit' is posted (the EVM tick's getBalance before it may throw)
NotifyDone(i) ==
    /\ ticks[i].pc = "notify"
    /\ \E ok \in (IF ticks[i].kind \in EVM THEN Net ELSE {TRUE}) :
        /\ IF ok THEN Loop(i, [ticks[i] EXCEPT !.told = @ \cup {ticks[i].cur}])
           ELSE Fail(i)
        /\ Spend(Cost(ok))
    /\ UNCHANGED <<TickFrame, priceCache, usdRound, drawLog, drawsDone>>

\* the transfers to the watched address in the blocks from..tip that the
\* loop `bn <= tip - confirmsNeeded + 1` does not reach
Deferred(c, from, tip) ==
    {<<c, x.id>> : x \in {y \in evmTxs[c] : /\ DepOf(c, y.id).pays
                                            /\ y.id \notin seen
                                            /\ y.bn >= from
                                            /\ y.bn > tip - CONF.EVM + 1
                                            /\ y.bn <= tip}}

\* EVM tick: getBlockNumber is answered; lastBlock is primed on the first tick
EvmTipDone(i) ==
    /\ ticks[i].pc = "tip"
    /\ \E ok \in Net :
        /\ Spend(Cost(ok))
        /\ IF ~ok THEN Fail(i)
           ELSE LET c == ticks[i].kind
                    tip == evmTip[c]
                    last == IF lastBlock[c] = 0 THEN tip - EvmFirstBack ELSE lastBlock[c]
                    from == Max(last + 1, tip - EvmWindow)
                    t == [ticks[i] EXCEPT !.tip = tip, !.bn = from,
                                          !.primed = (lastBlock[c] = 0)]
                IN  IF from <= tip - CONF.EVM + 1
                    THEN /\ ticks' = Set(i, [t EXCEPT !.pc = "block"])
                         /\ lastBlock' = [lastBlock EXCEPT ![c] = last]
                         /\ deferred' = deferred \cup Deferred(c, from, tip)
                         /\ UNCHANGED <<ledgerVars, lastSolSig, caught>>
                    ELSE /\ ticks' = Set(i, IdleTick)
                         /\ lastBlock' = [lastBlock EXCEPT ![c] = tip - CONF.EVM + 1]
                         /\ deferred' = deferred \cup Deferred(c, from, tip)
                         /\ UNCHANGED <<ledgerVars, lastSolSig, caught>>
    /\ UNCHANGED <<TickFrame, priceCache, usdRound, drawLog, drawsDone>>

RECURSIVE SeqOfSet(_)
SeqOfSet(S) ==
    IF S = {} THEN <<>>
    ELSE LET x == CHOOSE y \in S : \A z \in S : TxCode(y) <= TxCode(z)
         IN  <<x>> \o SeqOfSet(S \ {x})

\* block.transactions of block bn of chain c (a block not mined yet is null)
BlockTxs(c, bn) ==
    LET ids == SeqOfSet({x.id : x \in {y \in evmTxs[c] : y.bn = bn}})
    IN  [k \in 1..Len(ids) |-> [chain |-> c, id |-> ids[k]]]

\* EVM tick: getBlock(bn, true) is answered
EvmBlockDone(i) ==
    /\ ticks[i].pc = "block"
    /\ \E ok \in Net :
        /\ Spend(Cost(ok))
        /\ IF ok
           THEN /\ Loop(i, [ticks[i] EXCEPT !.items = BlockTxs(ticks[i].kind, ticks[i].bn)])
                /\ scanned' = [scanned EXCEPT ![ticks[i].kind] = @ \cup {ticks[i].bn}]
           ELSE /\ Fail(i)
                /\ UNCHANGED scanned
    /\ UNCHANGED <<ScanFrame, priceCache, usdRound, drawLog, drawsDone>>

RECURSIVE Reverse(_)
Reverse(q) == IF q = <<>> THEN <<>> ELSE Reverse(Tail(q)) \o <<Head(q)>>

\* getSignaturesForAddress(pub, {before}): the signatures older than
\* `before`, newest first (all of them without `before`)
SigsBefore(before) ==
    LET k == FirstIdx(solSigs, {before})
    IN  Reverse(IF before = Null THEN solSigs
                ELSE IF k = 0 THEN <<>> ELSE SubSeq(solSigs, 1, k - 1))

\* pollSOL: getSignaturesForAddress is answered; list = sigs.slice().reverse()
SolSigsDone(i) ==
    /\ ticks[i].pc = "sigs"
    /\ \E ok \in Net :
        /\ Spend(Cost(ok))
        /\ IF ~ok THEN Fail(i)
           ELSE LET sigs == SigsBefore(lastSolSig)
                IN  /\ ticks' = Set(i, [ticks[i] EXCEPT !.pc = "balance",
                                          !.items = Reverse(sigs),
                                          !.first = IF sigs = <<>> THEN Null ELSE sigs[1]])
                    /\ UNCHANGED <<ledgerVars, cursorVars>>
    /\ UNCHANGED <<TickFrame, priceCache, usdRound, drawLog, drawsDone>>

\* pollSOL: getBalance is answered
SolBalanceDone(i) ==
    /\ ticks[i].pc = "balance"
    /\ \E ok \in Net :
        /\ Spend(Cost(ok))
        /\ IF ok THEN Loop(i, ticks[i]) ELSE Fail(i)
    /\ UNCHANGED <<TickFrame, priceCache, usdRound, drawLog, drawsDone>>

\* pollSOL: getParsedTransaction is answered (a: it threw, it returned null,
\* or the transaction); the first transfer instruction to ADDR.SOL is
\* examined, a transaction without one is passed over
SolParsedDone(i) ==
    /\ ticks[i].pc = "parsed"
    /\ \E a \in (IF CanDisturb THEN {"tx", "null", "throw"} ELSE {"tx"}) :
        /\ Spend(Cost(a = "tx"))
        /\ IF a = "throw" THEN Fail(i)
           ELSE IF a = "tx" /\ DepOf("SOL", ticks[i].cur).pays
           THEN Examine(i, ticks[i], ticks[i].cur)
           ELSE Loop(i, ticks[i])
    /\ UNCHANGED <<TickFrame, priceCache, usdRound, drawLog, drawsDone>>

\* ----------------------------------------------------------- admin, restart

AdminFrame == <<priceCache, priming, seen, credited, creditedEver, rejections, usdRound, cursorVars,
                ticks, chainVars, scen, histVars, fn>>

\* /setentryusd: ENTRY_USD = Math.max(1, Number(m[1]))
SetEntryUsd(v) ==
    /\ CanDisturb
    /\ Spend(1)
    /\ ENTRY_USD' = Max(100, v)
    /\ UNCHANGED <<ROUND_TARGET_USD, ENTRY_TOL, rounds, grand, finalizing, AdminFrame>>

\* /settargetusd: ROUND_TARGET_USD = Math.max(ENTRY_USD, Number(m[1]))
SetTargetUsd(v) ==
    /\ CanDisturb
    /\ Spend(1)
    /\ ROUND_TARGET_USD' = Max(ENTRY_USD, v)
    /\ UNCHANGED <<ENTRY_USD, ENTRY_TOL, rounds, grand, finalizing, AdminFrame>>

\* /settol: a value above 0.5 is refused
SetTol(v) ==
    /\ CanDisturb
    /\ Spend(1)
    /\ ENTRY_TOL' = IF v < 0 \/ v > 50 THEN ENTRY_TOL ELSE v
    /\ UNCHANGED <<ENTRY_USD, ROUND_TARGET_USD, rounds, grand, finalizing, AdminFrame>>

CanRotate == \A s \in Coin : rounds[s].id <= MaxRounds

\* /restartround: newRoundAll()
RestartRound ==
    /\ CanDisturb
    /\ CanRotate
    /\ Spend(1)
    /\ rounds' = newRoundAll(rounds)
    /\ grand' = resetTotal(grand)
    /\ UNCHANGED <<cfgVars, finalizing, AdminFrame>>

\* /proofpaid: finalizeUsdProofManual posts 'Payout Confirmed' and waits
ProofPaid ==
    /\ CanDisturb
    /\ CanRotate
    /\ finalizing = 0
    /\ Spend(1)
    /\ finalizing' = finalizing + 1
    /\ UNCHANGED <<cfgVars, rounds, grand, AdminFrame>>

\* finalizeUsdProofManual: the post is done; newRoundAll()
ProofPosted ==
    /\ finalizing > 0
    /\ finalizing' = finalizing - 1
    /\ rounds' = newRoundAll(rounds)
    /\ grand' = resetTotal(grand)
    /\ UNCHANGED <<cfgVars, disturb, AdminFrame>>

\* The process is stopped and started again: every variable of the program
\* is initialised anew, the chains keep their contents.
Restart ==
    /\ scen.restart
    /\ CanDisturb
    /\ restarts < MaxRestarts
    /\ Spend(1)
    /\ restarts' = restarts + 1
    /\ ENTRY_USD' = EnvEntryUsd
    /\ ROUND_TARGET_USD' = EnvTargetUsd
    /\ ENTRY_TOL' = EnvTolPct
    /\ priceCache' = [fresh |-> FALSE, data |-> [s \in Coin |-> 0]]
    /\ priming' = TRUE
    /\ rounds' = InitRounds
    /\ grand' = [usdTotal |-> 0]
    /\ seen' = {}
    /\ usdRound' = <<>>
    /\ lastBlock' = [c \in EVM |-> 0]
    /\ lastSolSig' = Null
    /\ ticks' = [i \in 1..MaxTicks |-> IdleTick]
    /\ credited' = [t \in TxIds |-> 0]
    /\ rejections' = [t \in TxIds |-> 0]
    /\ deferred' = {}
    /\ caught' = 0
    /\ scanned' = [c \in EVM |-> {}]
    /\ finalizing' = 0
    /\ UNCHANGED <<chainVars, scen, creditedEver, drawLog, drawsDone, fn>>

\* ------------------------------------------------------------ specification

Pick(keys) == {d \in Deposits : <<d.chain, d.id>> \in keys}

\* The scenario of Spec: ADDR_BNB is not set (its watcher returns at once);
\* a $100 deposit on BTC, a $50 deposit on ETH and one on SOL may arrive.
AllScen ==
    [pool |-> Pick({<<"BTC", "b6">>, <<"ETH", "x1">>, <<"SOL", "s1">>}),
     limit |-> MaxDeposits, ticks |-> MaxTicks, watchers |-> {"BTC", "ETH", "SOL"},
     budget |-> MaxDisturb, conf |-> [BTC |-> 1, EVM |-> 1, SOL |-> 1],
     blocks |-> MaxBlocks, mineCost |-> 1, hang |-> {},
     missing |-> {Coin}, seedFailures |-> {{"BTC"}},
     entryChoices |-> {2500}, targetChoices |-> {5000}, tolChoices |-> {50},
     restart |-> FALSE]

Init ==
    /\ ProcessInit
    /\ ChainInit
    /\ HistInit
    /\ scen = AllScen
    /\ fn = NoFn

\* the steps of the ticks
TickStep ==
    \E i \in 1..MaxTicks :
        \/ BtcFetchDone(i)
        \/ EvmTipDone(i)
        \/ EvmBlockDone(i)
        \/ SolSigsDone(i)
        \/ SolBalanceDone(i)
        \/ SolParsedDone(i)
        \/ PricesDone(i)
        \/ PostDone(i)
        \/ SeedsDone(i)
        \/ AnnounceDone(i)
        \/ NotifyDone(i)

\* the watchers at work on chains that receive transfers
BaseStep ==
    \/ \E k \in Coin : StartTick(k)
    \/ TickStep
    \/ \E d \in Deposits : Arrive(d)
    \/ \E id \in TxIds : BtcConfirm(id)
    \/ PrimeDone

AdminStep ==
    \/ \E v \in scen.entryChoices : SetEntryUsd(v)
    \/ \E v \in scen.targetChoices : SetTargetUsd(v)
    \/ \E v \in scen.tolChoices : SetTol(v)
    \/ RestartRound
    \/ ProofPaid
    \/ ProofPosted

Next ==
    \/ BaseStep
    \/ \E c \in EVM : EvmMine(c)
    \/ PriceExpires
    \/ AdminStep

Spec == Init /\ [][Next]_vars

\* One tick at a time and a restart of the process as the only disturbance
\* besides failed requests.
RestartScen ==
    [AllScen EXCEPT !.ticks = 1, !.restart = TRUE]

InitRestart ==
    /\ ProcessInit
    /\ ChainInit
    /\ HistInit
    /\ scen = RestartScen
    /\ fn = NoFn

NextRestart ==
    \/ BaseStep
    \/ Restart

SpecRestart == InitRestart /\ [][NextRestart]_vars

\* pollBTC alone, one tick at a time, three $50 deposits, nothing fails
E2EScen ==
    [AllScen EXCEPT !.pool = Pick({<<"BTC", "b1">>, <<"BTC", "b2">>, <<"BTC", "b3">>}),
                    !.limit = MaxDeposits + 1, !.ticks = 1, !.watchers = {"BTC"},
                    !.budget = 0]

InitE2E ==
    /\ ProcessInit
    /\ ChainInit
    /\ HistInit
    /\ scen = E2EScen
    /\ fn = NoFn

NextE2E ==
    \/ StartTick("BTC")
    \/ \E i \in 1..MaxTicks :
        \/ BtcFetchDone(i)
        \/ PricesDone(i)
        \/ PostDone(i)
        \/ SeedsDone(i)
        \/ AnnounceDone(i)
        \/ NotifyDone(i)
    \/ \E d \in Deposits : Arrive(d)
    \/ \E id \in TxIds : BtcConfirm(id)
    \/ PrimeDone

SpecE2E == InitE2E /\ [][NextE2E]_vars

\* ticketsForUSD called on an amount, an entry price and a tolerance
MaxUsdDollars == 165
MaxEntryDollars == 50
TolSamples == {0, 1, 5, 10, 25, 33, 49, 50}

InitTickets ==
    /\ ProcessInit
    /\ ChainInit
    /\ HistInit
    /\ scen = [AllScen EXCEPT !.budget = 0]
    /\ \E u \in 0..(2 * MaxUsdDollars), e \in 1..MaxEntryDollars, t \in TolSamples :
        fn = [op |-> "ticketsForUSD", usd |-> 50 * u, entryUsd |-> 100 * e, tol |-> t,
              done |-> FALSE, out |-> 0]

CallTickets ==
    /\ fn.op = "ticketsForUSD"
    /\ ~fn.done
    /\ fn' = [fn EXCEPT !.done = TRUE, !.out = ticketsForUSD(fn.usd, fn.entryUsd, fn.tol)]
    /\ UNCHANGED <<cfgVars, priceCache, priming, ledgerVars, usdRound, cursorVars, ticks,
                   chainVars, scen, histVars, adminVars>>

SpecTickets == InitTickets /\ [][CallTickets]_vars

\* CONFIRMS_EVM = 2 and CONFIRMS_SOL = 2: the ETH watcher and pollSOL, one
\* tick at a time, nothing fails; the ETH chain may grow by more blocks than
\* the window of the tick (tip - 6) between two ticks.
ConfScen ==
    [AllScen EXCEPT !.pool = Pick({<<"ETH", "x1">>, <<"SOL", "s1">>}),
                    !.ticks = 1, !.watchers = {"ETH", "SOL"}, !.budget = 0,
                    !.conf = [BTC |-> 1, EVM |-> 2, SOL |-> 2],
                    !.blocks = EvmWindow + 2, !.mineCost = 0]

InitConf ==
    /\ ProcessInit
    /\ ChainInit
    /\ HistInit
    /\ scen = ConfScen
    /\ fn = NoFn

NextConf ==
    \/ StartTick("ETH")
    \/ StartTick("SOL")
    \/ \E i \in 1..MaxTicks :
        \/ EvmTipDone(i)
        \/ EvmBlockDone(i)
        \/ SolSigsDone(i)
        \/ SolBalanceDone(i)
        \/ SolParsedDone(i)
        \/ PricesDone(i)
        \/ PostDone(i)
        \/ SeedsDone(i)
        \/ AnnounceDone(i)
        \/ NotifyDone(i)
    \/ \E d \in Deposits : Arrive(d)
    \/ EvmMine("ETH")
    \/ PrimeDone

SpecConf == InitConf /\ [][NextConf]_vars

\* The process started with other values of ENTRY_USD and of
\* ENTRY_TOLERANCE_PCT in its environment: pollBTC and pollSOL, one tick at a
\* time, and a price source that may fail or answer without quotes.
EnvEntryChoices == {1000, 2500, 5000, 20000}
EnvTolChoices == {0, 10, 50, 80}

\* Math.max(0, Math.min(0.5, Number(process.env.ENTRY_TOLERANCE_PCT || 0.10)))
ClampTol(v) == Max(0, Min(50, v))

ZeroScen ==
    [AllScen EXCEPT !.pool = Pick({<<"BTC", "b6">>, <<"SOL", "s1">>}),
                    !.ticks = 1, !.watchers = {"BTC", "SOL"}]

InitZero ==
    /\ ENTRY_USD \in EnvEntryChoices
    /\ ROUND_TARGET_USD = EnvTargetUsd
    /\ ENTRY_TOL \in {ClampTol(v) : v \in EnvTolChoices}
    /\ priceCache = [fresh |-> FALSE, data |-> [s \in Coin |-> 0]]
    /\ priming = TRUE
    /\ rounds = InitRounds
    /\ grand = [usdTotal |-> 0]
    /\ seen = {}
    /\ usdRound = <<>>
    /\ lastBlock = [c \in EVM |-> 0]
    /\ lastSolSig = Null
    /\ ticks = [i \in 1..MaxTicks |-> IdleTick]
    /\ credited = [t \in TxIds |-> 0]
    /\ rejections = [t \in TxIds |-> 0]
    /\ deferred = {}
    /\ caught = 0
    /\ scanned = [c \in EVM |-> {}]
    /\ finalizing = 0
    /\ ChainInit
    /\ HistInit
    /\ scen = ZeroScen
    /\ fn = NoFn

NextZero ==
    \/ StartTick("BTC")
    \/ StartTick("SOL")
    \/ \E i \in 1..MaxTicks :
        \/ BtcFetchDone(i)
        \/ SolSigsDone(i)
        \/ SolBalanceDone(i)
        \/ SolParsedDone(i)
        \/ PricesDone(i)
        \/ PostDone(i)
        \/ SeedsDone(i)
        \/ AnnounceDone(i)
        \/ NotifyDone(i)
    \/ \E d \in Deposits : Arrive(d)
    \/ \E id \in TxIds : BtcConfirm(id)
    \/ PrimeDone

SpecZero == InitZero /\ [][NextZero]_vars

\* pollSOL alone with the configuration of the environment, nothing fails:
\* a $50 and a $32 transfer, and ticks that take longer than the 20 s of
\* their timer.
OverlapScen ==
    [AllScen EXCEPT !.pool = Pick({<<"SOL", "s1">>, <<"SOL", "s2">>}),
                    !.watchers = {"SOL"}, !.budget = 0]

InitOverlap ==
    /\ ProcessInit
    /\ ChainInit
    /\ HistInit
    /\ scen = OverlapScen
    /\ fn = NoFn

NextOverlap ==
    \/ StartTick("SOL")
    \/ \E i \in 1..MaxTicks :
        \/ SolSigsDone(i)
        \/ SolBalanceDone(i)
        \/ SolParsedDone(i)
        \/ PricesDone(i)
        \/ PostDone(i)
        \/ SeedsDone(i)
        \/ AnnounceDone(i)
        \/ NotifyDone(i)
    \/ \E d \in Deposits : Arrive(d)
    \/ PrimeDone

SpecOverlap == InitOverlap /\ [][NextOverlap]_vars

\* pollBTC alone, one tick at a time, with an operator at work: a $100 and
\* a $50 deposit, MaxOps disturbances (admin commands, 60 s passing, failed
\* requests).
MaxOps == 3

OpsScen ==
    [AllScen EXCEPT !.pool = Pick({<<"BTC", "b6">>, <<"BTC", "b1">>}),
                    !.ticks = 1, !.watchers = {"BTC"}, !.budget = MaxOps]

InitOps ==
    /\ ProcessInit
    /\ ChainInit
    /\ HistInit
    /\ scen = OpsScen
    /\ fn = NoFn

NextOps ==
    \/ StartTick("BTC")
    \/ \E i \in 1..MaxTicks :
        \/ BtcFetchDone(i)
        \/ PricesDone(i)
        \/ PostDone(i)
        \/ SeedsDone(i)
        \/ AnnounceDone(i)
        \/ NotifyDone(i)
    \/ \E d \in Deposits : Arrive(d)
    \/ \E id \in TxIds : BtcConfirm(id)
    \/ PrimeDone
    \/ PriceExpires
    \/ RestartRound
    \/ ProofPaid
    \/ ProofPosted

SpecOps == InitOps /\ [][NextOps]_vars

\* pollBTC alone, one tick at a time, nothing fails: a $100 and a $50
\* deposit, and a seed feed that never answers (none, the BTC one or the SOL
\* one).  The event loop runs every continuation whose request has settled:
\* the steps of the ticks are weakly fair.
HangChoices == {{}, {"BTC"}, {"SOL"}}

LiveScen ==
    [E2EScen EXCEPT !.pool = Pick({<<"BTC", "b6">>, <<"BTC", "b1">>}), !.limit = MaxDeposits]

InitLive ==
    /\ ProcessInit
    /\ ChainInit
    /\ HistInit
    /\ scen \in {[LiveScen EXCEPT !.hang = h] : h \in HangChoices}
    /\ fn = NoFn

LiveTickStep ==
    \E i \in 1..MaxTicks :
        \/ BtcFetchDone(i)
        \/ PricesDone(i)
        \/ PostDone(i)
        \/ SeedsDone(i)
        \/ AnnounceDone(i)
        \/ NotifyDone(i)

NextLive ==
    \/ StartTick("BTC")
    \/ LiveTickStep
    \/ \E d \in Deposits : Arrive(d)
    \/ \E id \in TxIds : BtcConfirm(id)
    \/ PrimeDone

\* a step of a tick can be taken: a tick is in flight and the request it
\* waits for settles (ENABLED <<LiveTickStep>>_vars, written out)
TickReady ==
    \E i \in 1..MaxTicks : ticks[i].pc # "idle" /\ (ticks[i].pc = "seeds" => SeedsSettle)

\* WF_vars(LiveTickStep)
LiveFair == []<>(~TickReady) \/ []<><<LiveTickStep>>_vars

SpecLive == InitLive /\ [][NextLive]_vars /\ LiveFair

\* The ETH and the BNB watcher, one tick at a time, nothing fails: a
\* transaction with the hash x1 pays the watched address on each chain, $50
\* each.  (No draw is reached: one of the two is credited.)
EvmScen ==
    [AllScen EXCEPT !.pool = Pick({<<"ETH", "x1">>, <<"BNB", "x1">>}),
                    !.ticks = 1, !.watchers = EVM, !.budget = 0, !.mineCost = 0]

InitEvm ==
    /\ ProcessInit
    /\ ChainInit
    /\ HistInit
    /\ scen = EvmScen
    /\ fn = NoFn

NextEvm ==
    \/ \E c \in EVM : StartTick(c)
    \/ \E i \in 1..MaxTicks :
        \/ EvmTipDone(i)
        \/ EvmBlockDone(i)
        \/ PricesDone(i)
        \/ PostDone(i)
        \/ NotifyDone(i)
    \/ \E d \in Deposits : Arrive(d)
    \/ \E c \in EVM : EvmMine(c)
    \/ PrimeDone

SpecEvm == InitEvm /\ [][NextEvm]_vars

\* The ETH watcher alone with the default CONFIRMS_EVM = 1, one tick at a
\* time; a request of a tick may fail, and between two ticks the chain may
\* grow by more blocks than the window of the tick (tip - 6).  One deposit
\* does not reach the target, so no draw runs.
ScanScen ==
    [AllScen EXCEPT !.pool = Pick({<<"ETH", "x1">>}),
                    !.ticks = 1, !.watchers = {"ETH"},
                    !.blocks = EvmWindow + 2, !.mineCost = 0]

InitScan ==
    /\ ProcessInit
    /\ ChainInit
    /\ HistInit
    /\ scen = ScanScen
    /\ fn = NoFn

NextScan ==
    \/ StartTick("ETH")
    \/ \E i \in 1..MaxTicks :
        \/ EvmTipDone(i)
        \/ EvmBlockDone(i)
        \/ PricesDone(i)
        \/ PostDone(i)
        \/ NotifyDone(i)
    \/ \E d \in Deposits : Arrive(d)
    \/ EvmMine("ETH")
    \/ PrimeDone

SpecScan == InitScan /\ [][NextScan]_vars

\* ----------------------------------------------------------------- claims

RECURSIVE EntriesFrom(_)
EntriesFrom(k) ==
    IF k > Len(COINS) THEN <<>> ELSE rounds[COINS[k]].entries \o EntriesFrom(k + 1)

\* the Entries of the open rounds of all ledgers
OpenEntries == EntriesFrom(1)

RECURSIVE SumUsd(_)
SumUsd(es) == IF es = <<>> THEN 0 ELSE Head(es).usd + SumUsd(Tail(es))

AllIdle == \A i \in 1..MaxTicks : ticks[i].pc = "idle"

\* C1: within one run of the process no txid/signature is the txid of two
\* Entries passed to addEntry, whatever the ticks and their interleaving.
\* pollSOL awaits getParsedTransaction between seen.has and seen.add, so two
\* pollSOL ticks in flight both pass the test and both call addEntry.
C1_CreditedOnce == \A t \in TxIds : credited[t] <= 1

\* C2: an event credited before a restart of the process is not credited
\* again after it.  seen and rounds live in memory only, so the restarted
\* process credits every event the chain reader still returns.
C2_CreditedOnceAcrossRestart == \A t \in TxIds : creditedEver[t] <= 1

\* C3: when runUsdDraw has run to its end on a pool that is not empty, a new
\* round is open: every ledger's round id is one higher than before.
\* runUsdDraw never calls newRoundAll.
C3_DrawOpensRound ==
    [][drawsDone' > drawsDone => \A s \in Coin : rounds'[s].id = rounds[s].id + 1]_vars

\* C4: no round has two draws: two draws that selected a winner within one
\* run of the process did so for different round ids.
C4_OneDrawPerRound ==
    \A d1, d2 \in drawLog :
        (d1.life = d2.life /\ d1.round = d2.round) => d1.seq = d2.seq

\* C5: target $100 and three accepted deposits of $50: once all three are
\* credited and the watcher is at rest, exactly one draw has run, over a
\* pool of 2 tickets, and the open round holds the third deposit alone
\* with usdTotal 50.
C5_ThirdDepositOpensRound ==
    (AllIdle /\ \A t \in {"b1", "b2", "b3"} : credited[t] = 1) =>
        /\ Cardinality(drawLog) = 1
        /\ \A d \in drawLog : Len(d.bag) = 2
        /\ Len(OpenEntries) = 1
        /\ grand.usdTotal = 5000

\* C6: grand.usdTotal is the sum of entry.usd over the Entries of the open
\* rounds of all ledgers in every reachable state, and a step that opens new
\* rounds (newRoundAll) leaves it 0 and every entries list empty.
C6_TotalIsSum ==
    /\ [](grand.usdTotal = SumUsd(OpenEntries))
    /\ [][(\E s \in Coin : rounds'[s].id # rounds[s].id) =>
            (grand'.usdTotal = 0 /\ \A s \in Coin : rounds'[s].entries = <<>>)]_vars

\* new rounds were opened and one Entry of $50 was recorded since
C6_Witness ==
    /\ rounds["BTC"].id = 2
    /\ Len(OpenEntries) = 1
    /\ grand.usdTotal = 5000

\* C7 as stated: every Entry held in a round has the tickets that
\* ticketsForUSD gives for its usd under the ENTRY_USD and ENTRY_TOL now in
\* effect, and at least 1.
C7_TicketsUnderCurrentConfig ==
    \A k \in 1..Len(OpenEntries) :
        /\ OpenEntries[k].tickets = ticketsForUSD(OpenEntries[k].usd, ENTRY_USD, ENTRY_TOL)
        /\ OpenEntries[k].tickets >= 1

\* C7 amended: an Entry is appended with the tickets that ticketsForUSD gives
\* for its usd under the ENTRY_USD and ENTRY_TOL in effect at that moment
\* (/setentryusd and /settol do not recompute the Entries held), and every
\* Entry held has at least 1 ticket.
C7_TicketsAsAppended ==
    /\ [](\A k \in 1..Len(OpenEntries) : OpenEntries[k].tickets >= 1)
    /\ [][\A s \in Coin :
            (rounds'[s].id = rounds[s].id /\ Len(rounds'[s].entries) > Len(rounds[s].entries)) =>
                LET e == rounds'[s].entries[Len(rounds'[s].entries)]
                IN  /\ e.tickets = ticketsForUSD(e.usd, ENTRY_USD, ENTRY_TOL)
                    /\ e.tickets >= 1]_vars

\* a $100 Entry of 2 tickets bought at $50, and a $50 Entry of 2 tickets
\* bought after /setentryusd 25
C7_Witness ==
    /\ ENTRY_USD = 2500
    /\ \E k \in 1..Len(OpenEntries) : OpenEntries[k].usd = 10000 /\ OpenEntries[k].tickets = 2
    /\ \E k \in 1..Len(OpenEntries) : OpenEntries[k].usd = 5000 /\ OpenEntries[k].tickets = 2

\* usd / entryUsd rounded to the nearest integer, halves upwards
C8_N ==
    CHOOSE n \in 0..(fn.usd \div fn.entryUsd + 1) :
        /\ (2 * n - 1) * fn.entryUsd <= 2 * fn.usd
        /\ 2 * fn.usd < (2 * n + 1) * fn.entryUsd

\* C8: ticketsForUSD gives 0 below entryUsd*(1-tol); else max(1, n), n being
\* usd/entryUsd rounded to nearest, when |usd - n*entryUsd| <= entryUsd*tol;
\* else 0.  With entryUsd 50 and tol 0.10: 47 gives 1, 25 gives 0, 103 gives
\* 2 and 160 gives 0.
C8_TicketsForUSD ==
    fn.done =>
        /\ fn.out = IF fn.usd * 100 < fn.entryUsd * (100 - fn.tol) THEN 0
                    ELSE IF Abs(fn.usd - C8_N * fn.entryUsd) * 100 <= fn.entryUsd * fn.tol
                         THEN Max(1, C8_N)
                         ELSE 0
        /\ (fn.entryUsd = 5000 /\ fn.tol = 10) =>
            /\ fn.usd = 4700 => fn.out = 1
            /\ fn.usd = 2500 => fn.out = 0
            /\ fn.usd = 10300 => fn.out = 2
            /\ fn.usd = 16000 => fn.out = 0

C8_Witness ==
    /\ fn.done
    /\ fn.usd = 10300
    /\ fn.entryUsd = 5000
    /\ fn.tol = 10
    /\ fn.out = 2

C10_WinnerInPool ==
    [][\A d \in drawLog' \ drawLog :
        /\ 0 <= d.idx
        /\ d.idx < Len(d.bag)
        /\ d.winner = <<d.bag[d.idx + 1]>>
        /\ \E k \in 1..Len(rounds'[d.winner[1].symbol].entries) :
            LET e == rounds'[d.winner[1].symbol].entries[k]
            IN  /\ e.txid = d.winner[1].txid
                /\ e.usd = d.winner[1].usd
                /\ e.tickets = d.winner[1].tickets]_vars

\* a draw over several tickets that did not select the first
C10_Witness == \E d \in drawLog : Len(d.bag) >= 2 /\ d.idx >= 1

\* the ledgers in the order of the claim
C11_Order == <<"BTC", "ETH", "BNB", "SOL">>

RECURSIVE C11_EntriesFrom(_)
C11_EntriesFrom(k) ==
    IF k > Len(C11_Order) THEN <<>>
    ELSE [j \in 1..Len(rounds[C11_Order[k]].entries) |->
            [symbol |-> C11_Order[k], e |-> rounds[C11_Order[k]].entries[j]]]
         \o C11_EntriesFrom(k + 1)

\* the tickets of the first k of the Entries es
RECURSIVE C11_Tickets(_, _)
C11_Tickets(es, k) == IF k = 0 THEN 0 ELSE es[k].e.tickets + C11_Tickets(es, k - 1)

C12_IdsOncePerEntry ==
    [][\A d \in drawLog' \ drawLog :
        txids(d.bag) = [k \in 1..Len(OpenEntries) |-> OpenEntries[k].txid]]_vars

\* the confirmation depth of transfer id on ledger s: tip - includedBlock + 1
\* (BTC: 1 with the confirmed flag, 0 in the mempool; SOL: in slots, every
\* signature of the address in a slot of its own)
C13_Depth(s, id) ==
    CASE s = "BTC" -> IF id \in btcConfirmed THEN 1 ELSE 0
      [] s = "SOL" -> Len(solSigs) - Index(solSigs, id) + 1
      [] OTHER -> evmTip[s] - (CHOOSE x \in evmTxs[s] : x.id = id).bn + 1

C13_Threshold(s) == IF s = "BTC" THEN Min(1, CONF.BTC) ELSE IF s = "SOL" THEN CONF.SOL ELSE CONF.EVM

\* C13: a deposit is credited on a ledger only when its confirmation depth
\* is at least the ledger's threshold (BTC: the confirmed flag; ETH, BNB:
\* CONF.EVM; SOL: CONF.SOL).  pollSOL never reads CONF.SOL.
C13_CreditedAtDepth ==
    [][\A s \in Coin :
        (rounds'[s].id = rounds[s].id /\ Len(rounds'[s].entries) > Len(rounds[s].entries)) =>
            LET e == rounds'[s].entries[Len(rounds'[s].entries)]
            IN  C13_Depth(s, e.txid) >= C13_Threshold(s)]_vars

\* C14: a transfer a tick left aside for lack of confirmations is not marked
\* seen and the cursor of its watcher stays below its block until it has
\* been examined (ETH and BNB watchers).  from = max(lastBlock + 1, tip - 6)
\* starts the next tick above the block when the chain grew by more than the
\* window, and lastBlock then moves past it.
C14_CursorBehindDeferred ==
    \A c \in EVM : \A x \in evmTxs[c] :
        (<<c, x.id>> \in deferred /\ x.id \notin seen) => lastBlock[c] < x.bn


\* C15: a deposit evaluated while the price of its symbol is 0 is not marked
\* seen: at the end of an evaluation whose price p was 0 (the tick is about
\* to post its message), the deposit's id is not in the seen set.
C15_ZeroPriceNotSeen ==
    \A i \in 1..MaxTicks :
        (ticks[i].pc = "post" /\ ticks[i].p = 0) => ticks[i].cur \notin seen


\* C16: no free entry.  A step that evaluates a deposit with price 0 for its
\* symbol (the tick arrives at its post with p = 0) computes 0 tickets,
\* appends no Entry to any ledger and leaves usdTotal alone, whatever the
\* positive entry price and the tolerance within 0..50 percent in effect.
C16_NoFreeEntry ==
    [][((\A i \in 1..MaxTicks : ticks[i].pc # "post")
        /\ (\E i \in 1..MaxTicks : ticks'[i].pc = "post" /\ ticks'[i].p = 0))
       => /\ ENTRY_USD > 0 /\ ENTRY_TOL \in 0..50
          /\ \A i \in 1..MaxTicks : ticks'[i].pc = "post" => ticks'[i].tickets = 0
          /\ rounds' = rounds
          /\ grand' = grand]_vars

\* a deposit was evaluated at price 0 under the cheapest entry price and the
\* widest tolerance, and nothing is credited
C16_Witness ==
    /\ ENTRY_USD = 1000
    /\ ENTRY_TOL = 50
    /\ \E i \in 1..MaxTicks :
        ticks[i].pc = "post" /\ ticks[i].p = 0 /\ ticks[i].tickets = 0
                             /\ ticks[i].cur = "b6"
    /\ OpenEntries = <<>>
    /\ grand.usdTotal = 0


\* C17: the 'did not match entry rule' message is published at most once
\* per id: a deposit that yielded 0 tickets is in the seen set when it is
\* rejected, and no later evaluation rejects it again.
C17_RejectedOnce ==
    \A t \in TxIds : rejections[t] <= 1


\* C18: ticks of the same watcher never overlap: no two invocations of one
\* watcher's tick function are in flight at once.
C18_NoOverlap ==
    \A i, j \in 1..MaxTicks :
        (i # j /\ ticks[i].pc # "idle" /\ ticks[j].pc # "idle")
            => ticks[i].kind # ticks[j].kind

\* C19: no Entry is added to a ledger while a draw is in flight, that is
\* from the step in which a tick found reachedUsdTarget() true (it waits for
\* the seeds, then for the announcement) until runUsdDraw returns.
C19_NoEntryDuringDraw ==
    [][(\E i \in 1..MaxTicks : ticks[i].pc \in {"seeds", "announce"})
       => \A s \in Coin : Len(rounds'[s].entries) <= Len(rounds[s].entries)]_vars

\* C20: the id of a credited event enters the seen set in the step that
\* appends its Entry: the dedup check, seen.add and addEntry are one step.
C20_SeenWithEntry ==
    [][\A t \in TxIds : credited'[t] > credited[t] => (t \notin seen /\ t \in seen')]_vars


\* the ids of the open rounds
C21_Ids == [s \in Coin |-> rounds[s].id]

\* the draw the stored record belongs to was made in the rounds now open
C21_DrawnHere == \E d \in drawLog : d.life = restarts /\ d.round = C21_Ids

\* C21: manual finalize is idempotent.  With a draw record stored, the
\* rotation at the end of finalizeUsdProofManual advances the round ids only
\* if usdTotal is nonzero or the round the draw was made in is the open one:
\* a second /proofpaid right after the first rotates nothing.
C21_FinalizeIdempotent ==
    [][(finalizing' < finalizing /\ usdRound # <<>>
        /\ \E s \in Coin : rounds'[s].id # rounds[s].id)
       => (grand.usdTotal # 0 \/ C21_DrawnHere)]_vars


\* C22: round rotation discards no history.  The program holds Entries in
\* rounds alone, each ledger's record carrying its round id: an Entry held
\* under a round id before a step is held under that id after it.
C22_HistoryKept ==
    [][\A s \in Coin : \A k \in 1..Len(rounds[s].entries) :
          /\ rounds'[s].id = rounds[s].id
          /\ k <= Len(rounds'[s].entries)
          /\ rounds'[s].entries[k] = rounds[s].entries[k]]_vars


\* C23: round ids never decrease.  Each ledger has one open round, the four
\* open rounds carry the same id, and a step that changes a round's id
\* replaces every ledger's round by an empty one whose id is the
\* predecessor's plus one.
C23_RoundIds ==
    /\ [](DOMAIN rounds = Coin /\ \A s, u \in Coin : rounds[s].id = rounds[u].id)
    /\ [][\A s \in Coin :
            \/ rounds'[s].id = rounds[s].id
            \/ /\ rounds'[s].id = rounds[s].id + 1
               /\ \A u \in Coin : rounds'[u] = [id |-> rounds[u].id + 1, entries |-> <<>>]]_vars

\* two rotations after the first round has held an Entry: /restartround or
\* /proofpaid twice
C23_Witness ==
    /\ \A s \in Coin : rounds[s].id = 3
    /\ \E t \in TxIds : credited[t] > 0


\* C24: runUsdDraw on an empty ticket pool aborts without side effects.  In
\* the step in which the seeds arrive and the bag is empty, the stored draw
\* record, the draws made and the round ids stay as they are and no winner
\* is announced; rounds, usdTotal and the seen set stay as they are too,
\* unless the loop of the tick goes on to examine its next deposit in the
\* same step.
C24_EmptyDrawNoEffect ==
    [][((\E i \in 1..MaxTicks : ticks[i].pc = "seeds")
        /\ (\A i \in 1..MaxTicks : ticks'[i].pc # "seeds")
        /\ buildTicketBag(rounds) = <<>>)
       => /\ usdRound' = usdRound
          /\ drawLog' = drawLog
          /\ drawsDone' = drawsDone
          /\ \A i \in 1..MaxTicks : ticks'[i].pc # "announce"
          /\ \A s \in Coin : rounds'[s].id = rounds[s].id
          /\ (\A i \in 1..MaxTicks : ticks'[i].pc \notin {"prices", "post"})
                => (rounds' = rounds /\ grand' = grand /\ seen' = seen)]_vars

\* a tick called runUsdDraw, the pool was emptied while it waited for the
\* seeds, and it went on to its next deposit with no draw made
C24_Witness ==
    /\ \E i \in 1..MaxTicks : ticks[i].drew /\ ticks[i].pc \in {"prices", "post"}
    /\ drawLog = {}
    /\ usdRound = <<>>
    /\ \A s \in Coin : rounds[s].id = 2


\* the step in which tick i ends in its catch
C25_FailStep(i) ==
    /\ caught' > caught
    /\ ticks[i].pc # "idle"
    /\ ticks' = Set(i, IdleTick)

C26_FingerprintPerLedger ==
    \A d \in drawLog : Cardinality(DOMAIN d.seedParts) = Cardinality(Coin)


\* C27: a draw cannot be blocked by one entropy feed.  A tick that has
\* called runUsdDraw is never left waiting for seeds that cannot arrive: its
\* Promise.all settles whichever single feed does not answer.
C27_DrawNotBlocked ==
    \A i \in 1..MaxTicks : ticks[i].pc = "seeds" => SeedsSettle

\* C27 as a progress property: a draw that waits for its seeds goes on to
\* select and announce a winner
C27_DrawCompletes ==
    \A i \in 1..MaxTicks :
        (ticks[i].pc = "seeds") ~> (\E j \in 1..MaxTicks : ticks[j].pc = "announce")

\* the part of C27 the code secures: with every feed answering, or the BTC
\* feed alone silent, the draw goes on
C27_TimedFeedCompletes ==
    \A i \in 1..MaxTicks :
        (ticks[i].pc = "seeds" /\ scen.hang \subseteq SeedTimed)
            ~> (\E j \in 1..MaxTicks : ticks[j].pc = "announce")


\* C28: the price cache never loses a known price.  Once the request of
\* start-up is answered, a symbol whose cached price is known (not 0) has
\* a known price after every step, whatever a later refresh fails to bring.
C28_KnownPriceKept ==
    [][\A s \in Coin :
          (~priming /\ priceCache.data[s] # 0) => priceCache'.data[s] # 0]_vars


\* ledger c holds an Entry for the transaction id
C29_HasEntry(c, id) == \E k \in 1..Len(rounds[c].entries) : rounds[c].entries[k].txid = id

\* C29: deduplication is scoped per ledger.  When the tick of an EVM watcher
\* receives a block with a transfer to its address that its own ledger holds
\* no Entry for, it examines the transfer, whether or not the same hash was
\* marked seen on another ledger.
C29_SeenPerLedger ==
    [][\A c \in EVM : \A x \in evmTxs[c] :
          (/\ ticks[1].kind = c
           /\ ticks[1].pc = "block"
           /\ ticks[1].bn = x.bn
           /\ DepOf(c, x.id).pays
           /\ ~C29_HasEntry(c, x.id)
           /\ ticks' # ticks)
          => (ticks'[1].cur = x.id /\ ticks'[1].pc \in {"prices", "post"})]_vars

\* the same, for the transfers whose hash is not in the seen set
C29_UnseenExamined ==
    [][\A c \in EVM : \A x \in evmTxs[c] :
          (/\ ticks[1].kind = c
           /\ ticks[1].pc = "block"
           /\ ticks[1].bn = x.bn
           /\ DepOf(c, x.id).pays
           /\ x.id \notin seen
           /\ ticks' # ticks)
          => (ticks'[1].cur = x.id /\ ticks'[1].pc \in {"prices", "post"})]_vars

\* C30: 'New Deposit' is published only in ticks that run no draw.  No tick
\* has both published 'New Deposit' and run a draw.
C30_NotifyXorDraw ==
    \A i \in 1..MaxTicks : ticks[i].told = {} \/ ticks[i].drawn = {}

\* C30, per deposit: for each deposit a tick credits, the tick either runs a
\* draw or publishes 'New Deposit', never both for the same deposit.
C30_NotifyXorDrawPerDeposit ==
    \A i \in 1..MaxTicks : ticks[i].told \cap ticks[i].drawn = {}

\* a tick that published 'New Deposit' for one deposit has run the draw for
\* another and goes on with its loop
C30_Witness ==
    \E i \in 1..MaxTicks : /\ ticks[i].told # {}
                            /\ ticks[i].drawn # {}
                            /\ drawsDone > 0

\* the first block an EVM watcher scanned
C31_FirstScanned(c) == CHOOSE b \in scanned[c] : \A o \in scanned[c] : b <= o

\* C31: the ETH/BNB block scan skips no block.  Every block number from the
\* first scanned block up to the current value of lastBlock has been scanned
\* by some tick.
C31_NoBlockSkipped ==
    \A c \in EVM :
        scanned[c] # {} =>
            \A b \in C31_FirstScanned(c)..lastBlock[c] : b \in scanned[c]

\* the same for the ticks that find the tip at most EvmWindow blocks above
\* lastBlock: such a tick starts at lastBlock + 1
C31_NoSkipWithinWindow ==
    [][\A i \in 1..MaxTicks :
          (/\ ticks[i].pc = "tip"
           /\ ticks'[i].pc = "block"
           /\ lastBlock[ticks[i].kind] # 0
           /\ evmTip[ticks[i].kind] - EvmWindow <= lastBlock[ticks[i].kind] + 1)
          => ticks'[i].bn = lastBlock[ticks[i].kind] + 1]_vars

\* the signatures that came on chain after the one lastSolSig names
C32_Newer ==
    {solSigs[k] : k \in {j \in 1..Len(solSigs) : j > FirstIdx(solSigs, {lastSolSig})}}

\* tick i gets the answer of getSignaturesForAddress in this step
C32_Answered(i) == ticks[i].pc = "sigs" /\ ticks'[i].pc = "balance"

\* C32: the SOL watcher observes new deposits.  The cursor lastSolSig never
\* excludes the signatures newer than it: a query of pollSOL made with the
\* cursor set returns every signature that came on chain after the cursor's.
C32_NewerReturned ==
    [][\A i \in 1..MaxTicks :
          (C32_Answered(i) /\ lastSolSig # Null)
          => \A sig \in C32_Newer : InSeq(sig, ticks'[i].items)]_vars

\* what holds instead: a query made with the cursor set returns none of the
\* signatures newer than the cursor
C32_NewerNeverReturned ==
    [][\A i \in 1..MaxTicks :
          (C32_Answered(i) /\ lastSolSig # Null)
          => \A sig \in C32_Newer : ~InSeq(sig, ticks'[i].items)]_vars

\* ticketsForUSD on (usd, entryUsd, tol): its first line lets the amount pass
\* and the nearest-multiple test `ok` fails
C33_NearestFails(usd, entryUsd, tol) ==
    /\ usd * 100 >= entryUsd * (100 - tol)
    /\ Abs(usd - Nearest(usd, entryUsd) * entryUsd) * 100 > entryUsd * tol

\* ... and the function still returns floor(usd/entryUsd) >= 1, the
\* remainder above that many whole entries being within entryUsd*tol
C33_FallbackFires(usd, entryUsd, tol) ==
    /\ C33_NearestFails(usd, entryUsd, tol)
    /\ usd \div entryUsd >= 1
    /\ (usd - (usd \div entryUsd) * entryUsd) * 100 <= entryUsd * tol
    /\ ticketsForUSD(usd, entryUsd, tol) = usd \div entryUsd

\* C33: the floor-with-dust fallback of ticketsForUSD accepts amounts the
\* nearest-rounding rule rejected.  For tolerances in [0, 0.5] there are
\* amounts for which the nearest-multiple test fails and the function
\* returns floor(usd/entryUsd) >= 1: whatever the entry price and the
\* tolerance of a call, such an amount exists.
C33_FallbackAccepts ==
    \E u \in 0..(2 * MaxUsdDollars) : C33_FallbackFires(50 * u, fn.entryUsd, fn.tol)

\* C33, as it holds: for tolerances in [0, 0.5] ticketsForUSD returns 0
\* whenever the nearest-multiple test fails; the fallback accepts nothing.
C33_FallbackNeverFires ==
    (fn.done /\ C33_NearestFails(fn.usd, fn.entryUsd, fn.tol)) => fn.out = 0

\* $130 at $50 and 10%: past the first line, the nearest multiple $150 is
\* $20 away, two whole entries leave $30, and the call returns 0
C33_Witness ==
    /\ fn.done
    /\ fn.usd = 13000
    /\ fn.entryUsd = 5000
    /\ fn.tol = 10
    /\ C33_NearestFails(fn.usd, fn.entryUsd, fn.tol)
    /\ fn.usd \div fn.entryUsd >= 1
    /\ fn.out = 0

====
